---- MODULE Spec2Model ----
(***************************************************************************)
(* Session routing and attachment state machine of the OpenCode client     *)
(* plugin (src/main.py): the Session Binding (_sessions), the Attachment   *)
(* Set (_attached_sessions), the message intercept (on_message) and the    *)
(* command dispatch (opencode_command), with every await on the remote     *)
(* server as a point where other handlers may run.                         *)
(***************************************************************************)
EXTENDS Integers, Sequences, FiniteSets, TLC

\* ------------------------------------------------------------------ bounds

\* Inbound events delivered over one run.
MaxEvents == 3

\* Event-processing tasks that may be suspended on the remote server together.
MaxInFlight == 2

\* Calls (operations and close) made on one OpenCodeClient.
MaxCalls == 5

\* Parts in one reply given to extract_text_from_parts.
MaxParts == 3

\* ------------------------------------------------------------------ inputs

\* One whitespace token; every other token of a message is a word.
SP == " "

\* (platform name, conversation id) of the chats that deliver events.
Sources == {<<"qq", "1">>, <<"tg", "1">>}

\* Message texts (message_str) as token sequences.
Inputs ==
    { <<SP, "hi", SP>>,
      <<SP>>,
      <<"oc">>,
      <<"oc", SP, "chat", SP, "hi">>,
      <<"oc", SP, "session">>,
      <<"oc", SP, "session", SP, "2">>,
      <<"oc", SP, "sessions">>,
      <<"oc", SP, "new">>,
      <<"oc", SP, "clear">>,
      <<"oc", SP, "attach", SP, "1">>,
      <<"oc", SP, "DEATTACH">>,
      <<"oc", SP, "cmd", SP, "init">>,
      <<"oc", SP, "cmd", SP, "init", SP, "{bad">> }

\* Results of one HTTP call: a 2xx response, a non-2xx response
\* (raise_for_status -> httpx.HTTPStatusError), a transport failure or
\* timeout (httpx.RequestError).
Outcomes == {"ok", "status", "transport"}

\* Reply payloads ("parts") the server may answer a sendMessage or an
\* executeCommand with.
ReplyParts ==
    { <<>>,
      << [type |-> "text", text |-> "A"],
         [type |-> "image", text |-> "x"],
         [type |-> "text", text |-> "B"] >> }

\* The parts a reply is made of: text parts (one with an empty text, one
\* that carries no text), parts of another type with and without a text, and
\* a part without a type.
PartKinds ==
    { [type |-> "text", text |-> "A"],
      [type |-> "text", text |-> "B"],
      [type |-> "text", text |-> ""],
      [type |-> "text"],
      [type |-> "image", text |-> "x"],
      [type |-> "image"],
      [text |-> "y"] }

\* Platform names and conversation ids of events, some with an underscore.
PlatformNames == {"a", "a_b", "b"}

ConversationIds == {"c", "b_c", "1"}

\* Structured-argument strings json.loads accepts.
ValidJson == {"{}"}

\* ------------------------------------------------------------------ state

VARIABLES
    client,      \* self.client is constructed (OpenCodeClientPlugin.initialize)
    conn,        \* OpenCodeClient._client: "none", "open" or "closed"
    sessions,    \* self._sessions: Session Identity Key -> remote session id
    attached,    \* self._attached_sessions: key -> remote session id
    nextId,      \* remote server: the id its next createSession returns
    tasks,       \* event number -> the suspended processing of that event
    arrived,     \* number of events delivered so far
    last,        \* the event whose processing ended in the latest step, if any
    everBound,   \* key -> every id the key has been bound to so far
    partsIn,     \* extract_text_from_parts: its argument
    rendered,    \* extract_text_from_parts: <<>>, or <<the text it returned>>
    evs,         \* _get_session_key: the (platform name, conversation id) of two events
    evKeys,      \* _get_session_key: the keys returned for them so far
    resources,   \* OpenCodeClient: every httpx.AsyncClient made, "open" or "released"
    cur,         \* OpenCodeClient._client: 0 (None) or the position of a resource
    pending,     \* OpenCodeClient: the resource of each request in flight
    made         \* OpenCodeClient: the calls made on the client so far, in order

\* The state of the plugin's routing.
router == <<client, conn, sessions, attached, nextId, tasks,
            arrived, last, everBound>>

\* The state the pure functions and the client's connection are studied in.
aux == <<partsIn, rendered, evs, evKeys, resources, cur, pending, made>>

vars == <<router, aux>>

\* ------------------------------------------------------------------ pure helpers

\* {}
EmptyMap == [x \in {} |-> ""]

\* dict.get(key): the entry, or "" (None) when the key is absent.
Lookup(d, k) == IF k \in DOMAIN d THEN d[k] ELSE ""

\* del d[k]
Remove(d, k) == [x \in DOMAIN d \ {k} |-> d[x]]

\* d[k] = v
Put(d, k, v) == [x \in DOMAIN d \cup {k} |-> IF x = k THEN v ELSE d[x]]

\* str.strip(): leading and trailing whitespace removed.
RECURSIVE LStrip(_)
LStrip(s) == IF s # <<>> /\ Head(s) = SP THEN LStrip(Tail(s)) ELSE s

RECURSIVE RStrip(_)
RStrip(s) ==
    IF s # <<>> /\ s[Len(s)] = SP THEN RStrip(SubSeq(s, 1, Len(s) - 1)) ELSE s

Strip(s) == RStrip(LStrip(s))

\* The text of a token sequence.
RECURSIVE Join(_)
Join(s) == IF s = <<>> THEN "" ELSE Head(s) \o Join(Tail(s))

\* str.split(maxsplit=m) of a stripped text: at most m words, then the rest
\* of the text with its leading whitespace dropped, as one last part.
RECURSIVE SplitMax(_, _)
SplitMax(s, m) ==
    LET t == LStrip(s) IN
    IF t = <<>> THEN <<>>
    ELSE IF m = 0 THEN <<t>>
    ELSE <<<<Head(t)>>>> \o SplitMax(Tail(t), m - 1)

\* str.lower() on the command words used here.
Lower(w) ==
    CASE w = "DEATTACH" -> "deattach"
      [] w = "CHAT" -> "chat"
      [] OTHER -> w

\* _get_session_key
SessionKey(src) == src[1] \o "_" \o src[2]

Keys == {SessionKey(src) : src \in Sources}

\* The id the server gives its n-th session.
IdOf(n) == ToString(n)

\* GET /session/{id} finds the session.
Exists(id) == \E i \in 1..(nextId - 1) : IdOf(i) = id

\* part.get(field, default); a missing "type" reads as None, here "".
Get(part, field, default) ==
    IF field \in DOMAIN part THEN part[field] ELSE default

\* extract_text_from_parts: the loop that collects texts.
RECURSIVE TextsOf(_)
TextsOf(parts) ==
    IF parts = <<>> THEN <<>>
    ELSE IF Get(Head(parts), "type", "") = "text"
         THEN <<Get(Head(parts), "text", "")>> \o TextsOf(Tail(parts))
         ELSE TextsOf(Tail(parts))

RECURSIVE JoinLines(_)
JoinLines(ts) ==
    IF ts = <<>> THEN ""
    ELSE IF Len(ts) = 1 THEN ts[1]
    ELSE ts[1] \o "\n" \o JoinLines(Tail(ts))

\* extract_text_from_parts that takes the text of every part, whatever its type.
extract_text_from_parts_unfiltered(parts) ==
    JoinLines([i \in 1..Len(parts) |-> Get(parts[i], "text", "")])

extract_text_from_parts(parts) == JoinLines(TextsOf(parts))

\* The framework's command filter of opencode_command: the first word is "oc".
IsCommand(msg) == Strip(msg) # <<>> /\ Head(Strip(msg)) = "oc"

\* One remote call as the handler h ("om" or "cmd") issues it.
Call(h, op, sid, text) ==
    [h |-> h, op |-> op, sid |-> sid, text |-> text, res |-> "pending", ret |-> ""]

\* The key's entries as one value.
Snap(s, a, k) == [bind |-> Lookup(s, k), att |-> Lookup(a, k)]

\* The bookkeeping of one event's processing: its handlers' locals (sid),
\* where it is suspended (pc), the remote calls and replies it has made, its
\* key's entries when it arrived (pre) and when it ended (post), the ids its
\* key had been bound to when it arrived (ever), and whether another task
\* changed its key's entries while it was in flight (foreign).
NoTask ==
    [n |-> 0, src |-> <<"", "">>, key |-> "", msg |-> <<>>, pc |-> "none",
     sid |-> "", calls |-> <<>>, replies |-> <<>>,
     pre |-> [bind |-> "", att |-> ""], post |-> [bind |-> "", att |-> ""],
     ever |-> {}, foreign |-> FALSE]

\* The plugin as __init__ leaves it, before initialize(): no client, both
\* maps empty.  The server already holds one session, with id 1, that this
\* plugin did not create.
RouterInit ==
    /\ client = FALSE
    /\ conn = "none"
    /\ sessions = EmptyMap
    /\ attached = EmptyMap
    /\ nextId = 2
    /\ tasks = EmptyMap
    /\ arrived = 0
    /\ last = NoTask
    /\ everBound = [k \in Keys |-> {}]

\* Nothing rendered, no key computed.
PureIdle ==
    /\ partsIn = <<>>
    /\ rendered = <<>>
    /\ evs = <<>>
    /\ evKeys = <<>>

\* OpenCodeClient.__init__: no connection resource yet.
ClientInit ==
    /\ resources = <<>>
    /\ cur = 0
    /\ pending = <<>>
    /\ made = <<>>

Init == RouterInit /\ PureIdle /\ ClientInit

\* ------------------------------------------------------------------ bookkeeping

\* The entries of key k differ between the current maps and (s2, a2).
Touched(s2, a2, k) == Snap(s2, a2, k) # Snap(sessions, attached, k)

\* The other suspended tasks; one whose key's entries this step changes is
\* marked: another handler wrote its entries while it was in flight.
Others(n, s2, a2) ==
    [m \in DOMAIN tasks \ {n} |->
        IF Touched(s2, a2, tasks[m].key)
        THEN [tasks[m] EXCEPT !.foreign = TRUE]
        ELSE tasks[m]]

\* Task n continues as t with the maps now (s2, a2); a task that has ended
\* leaves the task table and is reported in last for that one step.
Commit(n, t, s2, a2) ==
    /\ sessions' = s2
    /\ attached' = a2
    /\ everBound' =
          [k \in Keys |->
              everBound[k] \cup (IF k \in DOMAIN s2 THEN {s2[k]} ELSE {})]
    /\ IF t.pc = "done"
       THEN /\ tasks' = Others(n, s2, a2)
            /\ last' = [t EXCEPT !.post = Snap(s2, a2, t.key)]
       ELSE /\ tasks' =
                  [m \in (DOMAIN tasks) \cup {n} |->
                      IF m = n THEN t ELSE Others(n, s2, a2)[m]]
            /\ last' = NoTask

\* The last remote call of t has returned with outcome o and result ret.
SetRes(t, o, ret) ==
    [t EXCEPT !.calls =
        [@ EXCEPT ![Len(t.calls)] = [@ EXCEPT !.res = o, !.ret = ret]]]

\* yield event.plain_result(text) in handler h ("om": on_message, "cmd":
\* opencode_command).
Reply(t, h, text) == [t EXCEPT !.replies = Append(@, [h |-> h, text |-> text])]

\* The handler reaches an await on a remote call.
Issue(t, pc, call) == [t EXCEPT !.pc = pc, !.calls = Append(@, call)]

\* A handler step's result: the task and the two maps after it.
Out(t, s, a) == [t |-> t, s |-> s, a |-> a]

\* The outer except clauses of a handler: one reply per failure class.
ErrorReply(o) ==
    CASE o = "status" -> "request failed: status"
      [] o = "transport" -> "network error"
      [] OTHER -> "error"

\* The reply to a sendMessage that succeeded.
Answer(session_id, parts) ==
    LET response_text == extract_text_from_parts(parts) IN
    "Opencode: " \o session_id \o "\n\n---\n"
        \o (IF response_text = "" THEN "(no response)" ELSE response_text)

\* ------------------------------------------------------------------ plugin lifecycle

\* initialize(): the client is constructed, then health() opens the connection.
Initialize ==
    /\ ~client
    /\ client' = TRUE
    /\ conn' = "open"
    /\ last' = NoTask
    /\ UNCHANGED <<sessions, attached, nextId, tasks, arrived, everBound, aux>>

\* ------------------------------------------------------------------ message intercept

\* What follows the intercept in the event pipeline: the command handler for
\* a command message, nothing for any other message.
AfterIntercept(t) == IF IsCommand(t.msg) THEN "dispatch" ELSE "done"


\* on_message that forwards message_str as it came, not stripped.
on_message_unstripped(t) ==
    LET key == SessionKey(t.src)
        session_id == Lookup(attached, key)
        message_str == Strip(t.msg)
    IN  IF ~client THEN [t EXCEPT !.pc = AfterIntercept(t)]
        ELSE IF session_id = "" THEN [t EXCEPT !.pc = AfterIntercept(t)]
        ELSE IF message_str = <<>> THEN [t EXCEPT !.pc = AfterIntercept(t)]
        ELSE Issue([t EXCEPT !.sid = session_id], "om_send",
                   Call("om", "send", session_id, Join(t.msg)))

\* on_message up to its await.
on_message(t) ==
    LET key == SessionKey(t.src)
        session_id == Lookup(attached, key)
        message_str == Strip(t.msg)
    IN  IF ~client THEN [t EXCEPT !.pc = AfterIntercept(t)]
        ELSE IF session_id = "" THEN [t EXCEPT !.pc = AfterIntercept(t)]
        ELSE IF message_str = <<>> THEN [t EXCEPT !.pc = AfterIntercept(t)]
        ELSE Issue([t EXCEPT !.sid = session_id], "om_send",
                   Call("om", "send", session_id, Join(message_str)))

\* An event arrives from src with text msg; the intercept runs first.
Arrive(src, msg) ==
    /\ arrived < MaxEvents
    /\ Cardinality(DOMAIN tasks) < MaxInFlight
    /\ LET n == arrived + 1
           key == SessionKey(src)
           t == on_message([NoTask EXCEPT !.n = n, !.src = src, !.key = key,
                                          !.msg = msg,
                                          !.pre = Snap(sessions, attached, key),
                                          !.ever = everBound[key]])
       IN  /\ arrived' = n
           /\ conn' = IF t.pc = "om_send" THEN "open" ELSE conn
           /\ Commit(n, t, sessions, attached)
    /\ UNCHANGED <<client, nextId, aux>>

\* on_message that detaches the key when its send fails.
on_message_return_detaches(t, o, parts) ==
    LET r == SetRes(t, o, "") IN
    Out([Reply(r, "om", IF o = "ok" THEN Answer(t.sid, parts) ELSE ErrorReply(o))
            EXCEPT !.pc = AfterIntercept(t)],
        sessions,
        IF o = "ok" THEN attached ELSE Remove(attached, SessionKey(t.src)))

\* on_message after its sendMessage has returned.
on_message_return(t, o, parts) ==
    LET r == SetRes(t, o, "") IN
    Out([Reply(r, "om", IF o = "ok" THEN Answer(t.sid, parts) ELSE ErrorReply(o))
            EXCEPT !.pc = AfterIntercept(t)],
        sessions, attached)

\* The server can answer a call on session id with 2xx only if it has it.
Possible(o, id) == o = "ok" => Exists(id)

OnMessageReturn(n, o, parts) ==
    /\ n \in DOMAIN tasks
    /\ tasks[n].pc = "om_send"
    /\ Possible(o, tasks[n].sid)
    /\ LET r == on_message_return(tasks[n], o, parts) IN Commit(n, r.t, r.s, r.a)
    /\ UNCHANGED <<client, conn, nextId, arrived, aux>>

\* ------------------------------------------------------------------ command dispatch

\* message_str.strip().split(maxsplit=2)
Parts(t) == SplitMax(Strip(t.msg), 2)

\* parts[1].lower()
Command(t) == Lower(Join(Parts(t)[2]))

\* parts[2] if len(parts) > 2 else ""
Args(t) == IF Len(Parts(t)) > 2 THEN Parts(t)[3] ELSE <<>>

\* The command handler ends with one more reply.
Done(t, text) == [Reply(t, "cmd", text) EXCEPT !.pc = "done"]

\* chat and cmd from the point where _get_or_create_session has returned
\* session_id, up to the next await.  The progress reply they yield first
\* hands control to the framework, but the call that follows uses only the
\* handler's locals, so it is issued in the same step.
with_session(t, session_id) ==
    LET u == [t EXCEPT !.sid = session_id] IN
    IF Command(t) = "chat"
    THEN Issue(Reply(u, "cmd", "thinking"), "chat_send",
               Call("cmd", "send", session_id, Join(Args(t))))
    ELSE LET cmd_parts == SplitMax(Args(t), 1)
             cmd_name == Join(cmd_parts[1])
         IN  IF Len(cmd_parts) > 1 /\ Join(cmd_parts[2]) \notin ValidJson
             THEN Done(u, ErrorReply("json"))
             ELSE Issue(Reply(u, "cmd", "executing"), "cmd_exec",
                        Call("cmd", "exec", session_id, cmd_name))

\* _get_or_create_session that creates a session whether or not the key is
\* bound.
get_or_create_session_always(t) ==
    IF ~client
    THEN Done(t, ErrorReply("runtime"))
    ELSE Issue(t, "create", Call("cmd", "create", "", "AstrBot Session"))

\* _get_or_create_session up to its await, and what follows it in chat / cmd
\* when the key is bound already.
get_or_create_session(t) ==
    LET key == SessionKey(t.src) IN
    IF key \notin DOMAIN sessions
    THEN IF ~client
         THEN Done(t, ErrorReply("runtime"))
         ELSE Issue(t, "create", Call("cmd", "create", "", "AstrBot Session"))
    ELSE with_session(t, sessions[key])

\* chat <text>
cmd_chat(t) ==
    IF Args(t) = <<>> THEN Out(Done(t, "usage: chat"), sessions, attached)
    ELSE Out(get_or_create_session(t), sessions, attached)

\* session [id]
cmd_session(t) ==
    LET key == SessionKey(t.src)
        session_id == Lookup(sessions, key)
    IN  IF Args(t) # <<>>
        THEN Out(Issue(t, "session_get", Call("cmd", "get", Join(Args(t)), "")),
                 sessions, attached)
        ELSE IF session_id = ""
        THEN Out(Done(t, "no active session"), sessions, attached)
        ELSE Out(Issue([t EXCEPT !.sid = session_id], "current_get",
                       Call("cmd", "get", session_id, "")),
                 sessions, attached)

\* sessions, commands, health
cmd_read(t) ==
    Out(Issue(t, "read", Call("cmd", Command(t), "", "")), sessions, attached)

\* new that binds the key before create_session has answered.
cmd_new_eager(t) ==
    Out(Issue(t, "new_create",
              Call("cmd", "create", "",
                   IF Args(t) # <<>> THEN Join(Args(t)) ELSE "New Session")),
        Put(sessions, SessionKey(t.src), IdOf(nextId)), attached)

\* new [title]
cmd_new(t) ==
    Out(Issue(t, "new_create",
              Call("cmd", "create", "",
                   IF Args(t) # <<>> THEN Join(Args(t)) ELSE "New Session")),
        sessions, attached)

\* clear that empties the whole Session Binding.
cmd_clear_all(t) ==
    LET key == SessionKey(t.src) IN
    IF key \in DOMAIN sessions
    THEN Out(Done(t, "cleared"), EmptyMap, attached)
    ELSE Out(Done(t, "no active session to clear"), sessions, attached)

\* clear that acknowledges but keeps the binding.
cmd_clear_keeps(t) ==
    LET key == SessionKey(t.src) IN
    IF key \in DOMAIN sessions
    THEN Out(Done(t, "cleared"), sessions, attached)
    ELSE Out(Done(t, "no active session to clear"), sessions, attached)

\* clear
cmd_clear(t) ==
    LET key == SessionKey(t.src) IN
    IF key \in DOMAIN sessions
    THEN Out(Done(t, "cleared"), Remove(sessions, key), attached)
    ELSE Out(Done(t, "no active session to clear"), sessions, attached)

\* attach <id>
cmd_attach(t) ==
    IF Args(t) = <<>> THEN Out(Done(t, "usage: attach"), sessions, attached)
    ELSE Out(Issue(t, "attach_get", Call("cmd", "get", Join(Args(t)), "")),
             sessions, attached)

\* deattach that drops the binding together with the attachment.
cmd_deattach_unbinds(t) ==
    LET key == SessionKey(t.src) IN
    IF key \in DOMAIN attached
    THEN Out(Done(t, "detached"), Remove(sessions, key), Remove(attached, key))
    ELSE Out(Done(t, "not attached"), sessions, attached)

\* deattach
cmd_deattach(t) ==
    LET key == SessionKey(t.src) IN
    IF key \in DOMAIN attached
    THEN Out(Done(t, "detached"), sessions, Remove(attached, key))
    ELSE Out(Done(t, "not attached"), sessions, attached)

\* cmd that parses the structured arguments before get-or-create.
cmd_cmd_parse_first(t) ==
    LET cmd_parts == SplitMax(Args(t), 1) IN
    IF Args(t) = <<>> THEN Out(Done(t, "usage: cmd"), sessions, attached)
    ELSE IF Len(cmd_parts) > 1 /\ Join(cmd_parts[2]) \notin ValidJson
    THEN Out(Done(t, ErrorReply("json")), sessions, attached)
    ELSE Out(get_or_create_session(t), sessions, attached)

\* cmd <name> [json-args]
cmd_cmd(t) ==
    IF Args(t) = <<>> THEN Out(Done(t, "usage: cmd"), sessions, attached)
    ELSE Out(get_or_create_session(t), sessions, attached)

\* opencode_command that dispatches without looking at self.client first.
opencode_command_unchecked(t) ==
    LET command == Command(t) IN
    IF Len(Parts(t)) < 2 THEN Out(Done(t, "usage"), sessions, attached)
    ELSE CASE command = "chat" -> cmd_chat(t)
           [] command = "session" -> cmd_session(t)
           [] command \in {"sessions", "commands", "health"} -> cmd_read(t)
           [] command = "new" -> cmd_new(t)
           [] command = "clear" -> cmd_clear(t)
           [] command = "attach" -> cmd_attach(t)
           [] command = "deattach" -> cmd_deattach(t)
           [] command = "cmd" -> cmd_cmd(t)
           [] OTHER -> Out(Done(t, "unknown command"), sessions, attached)

\* opencode_command up to its first await.
opencode_command(t) ==
    LET command == Command(t) IN
    IF Len(Parts(t)) < 2 THEN Out(Done(t, "usage"), sessions, attached)
    ELSE IF ~client
    THEN Out(Done(t, "client not initialized"), sessions, attached)
    ELSE CASE command = "chat" -> cmd_chat(t)
           [] command = "session" -> cmd_session(t)
           [] command \in {"sessions", "commands", "health"} -> cmd_read(t)
           [] command = "new" -> cmd_new(t)
           [] command = "clear" -> cmd_clear(t)
           [] command = "attach" -> cmd_attach(t)
           [] command = "deattach" -> cmd_deattach(t)
           [] command = "cmd" -> cmd_cmd(t)
           [] OTHER -> Out(Done(t, "unknown command"), sessions, attached)

\* The command handler of a command message starts.
Dispatch(n) ==
    /\ n \in DOMAIN tasks
    /\ tasks[n].pc = "dispatch"
    /\ LET r == opencode_command(tasks[n]) IN
       /\ conn' = IF r.t.pc # "done" THEN "open" ELSE conn
       /\ Commit(n, r.t, r.s, r.a)
    /\ UNCHANGED <<client, nextId, arrived, aux>>

\* _get_or_create_session that looks at the binding again after the await
\* and keeps one that has appeared meanwhile.
create_return_keep_first(t, o) ==
    LET key == SessionKey(t.src)
        id == IdOf(nextId)
    IN  IF o = "ok"
        THEN LET s2 == IF key \in DOMAIN sessions THEN sessions
                       ELSE Put(sessions, key, id)
             IN  Out(with_session(SetRes(t, o, id), s2[key]), s2, attached)
        ELSE Out(Done(SetRes(t, o, ""), ErrorReply(o)), sessions, attached)

\* _get_or_create_session after create_session has returned, then the rest
\* of chat / cmd up to the next await.
create_return(t, o) ==
    LET key == SessionKey(t.src)
        id == IdOf(nextId)
    IN  IF o = "ok"
        THEN LET s2 == Put(sessions, key, id) IN
             Out(with_session(SetRes(t, o, id), s2[key]), s2, attached)
        ELSE Out(Done(SetRes(t, o, ""), ErrorReply(o)), sessions, attached)

CreateReturn(n, o) ==
    /\ n \in DOMAIN tasks
    /\ tasks[n].pc = "create"
    /\ LET r == create_return(tasks[n], o) IN
       /\ nextId' = IF o = "ok" THEN nextId + 1 ELSE nextId
       /\ conn' = IF r.t.pc # "done" THEN "open" ELSE conn
       /\ Commit(n, r.t, r.s, r.a)
    /\ UNCHANGED <<client, arrived, aux>>

\* chat after send_message has returned.
chat_send_return(t, o, parts) ==
    Out(Done(SetRes(t, o, ""),
             IF o = "ok" THEN Answer(t.sid, parts) ELSE ErrorReply(o)),
        sessions, attached)

ChatSendReturn(n, o, parts) ==
    /\ n \in DOMAIN tasks
    /\ tasks[n].pc = "chat_send"
    /\ Possible(o, tasks[n].sid)
    /\ LET r == chat_send_return(tasks[n], o, parts) IN Commit(n, r.t, r.s, r.a)
    /\ UNCHANGED <<client, conn, nextId, arrived, aux>>

\* session <id> that rebinds before it looks at the lookup's outcome.
session_get_return_rebinds(t, o) ==
    LET key == SessionKey(t.src)
        args == Join(Args(t))
        r == SetRes(t, o, "")
    IN  CASE o = "ok" ->
                Out(Done(r, "switched to " \o args), Put(sessions, key, args),
                    attached)
          [] o = "status" ->
                Out(Done(r, "session not found: " \o args),
                    Put(sessions, key, args), attached)
          [] OTHER -> Out(Done(r, ErrorReply(o)), sessions, attached)

\* session <id> after get_session has returned.
session_get_return(t, o) ==
    LET key == SessionKey(t.src)
        args == Join(Args(t))
        r == SetRes(t, o, "")
    IN  CASE o = "ok" ->
                Out(Done(r, "switched to " \o args), Put(sessions, key, args),
                    attached)
          [] o = "status" ->
                Out(Done(r, "session not found: " \o args), sessions, attached)
          [] OTHER -> Out(Done(r, ErrorReply(o)), sessions, attached)

SessionGetReturn(n, o) ==
    /\ n \in DOMAIN tasks
    /\ tasks[n].pc = "session_get"
    /\ Possible(o, Join(Args(tasks[n])))
    /\ LET r == session_get_return(tasks[n], o) IN Commit(n, r.t, r.s, r.a)
    /\ UNCHANGED <<client, conn, nextId, arrived, aux>>

\* session (no id) after get_session of the bound id has returned.
current_get_return(t, o) ==
    Out(Done(SetRes(t, o, ""),
             IF o = "ok" THEN "current session " \o t.sid ELSE ErrorReply(o)),
        sessions, attached)

CurrentGetReturn(n, o) ==
    /\ n \in DOMAIN tasks
    /\ tasks[n].pc = "current_get"
    /\ Possible(o, tasks[n].sid)
    /\ LET r == current_get_return(tasks[n], o) IN Commit(n, r.t, r.s, r.a)
    /\ UNCHANGED <<client, conn, nextId, arrived, aux>>

\* sessions / commands / health whose failures end the handler without a reply.
read_return_unanswered(t, o, empty) ==
    IF o # "ok"
    THEN Out([SetRes(t, o, "") EXCEPT !.pc = "done"], sessions, attached)
    ELSE Out(Done(SetRes(t, o, ""),
                  CASE Command(t) = "sessions" ->
                         IF empty THEN "no sessions" ELSE "session list"
                    [] Command(t) = "commands" ->
                         IF empty THEN "no commands" ELSE "command list"
                    [] OTHER -> "server status"),
             sessions, attached)

\* sessions / commands / health after the call has returned; empty says the
\* list the server returned is empty (its session list is, when it has none).
read_return(t, o, empty) ==
    Out(Done(SetRes(t, o, ""),
             IF o # "ok" THEN ErrorReply(o)
             ELSE CASE Command(t) = "sessions" ->
                         IF empty THEN "no sessions" ELSE "session list"
                    [] Command(t) = "commands" ->
                         IF empty THEN "no commands" ELSE "command list"
                    [] OTHER -> "server status"),
        sessions, attached)

ReadReturn(n, o, empty) ==
    /\ n \in DOMAIN tasks
    /\ tasks[n].pc = "read"
    /\ Command(tasks[n]) = "sessions" => empty = (nextId = 1)
    /\ LET r == read_return(tasks[n], o, empty) IN Commit(n, r.t, r.s, r.a)
    /\ UNCHANGED <<client, conn, nextId, arrived, aux>>

\* new after create_session has returned.
new_create_return(t, o) ==
    LET key == SessionKey(t.src)
        id == IdOf(nextId)
    IN  IF o = "ok"
        THEN Out(Done(SetRes(t, o, id), "created session " \o id),
                 Put(sessions, key, id), attached)
        ELSE Out(Done(SetRes(t, o, ""), ErrorReply(o)), sessions, attached)

NewCreateReturn(n, o) ==
    /\ n \in DOMAIN tasks
    /\ tasks[n].pc = "new_create"
    /\ LET r == new_create_return(tasks[n], o) IN
       /\ nextId' = IF o = "ok" THEN nextId + 1 ELSE nextId
       /\ Commit(n, r.t, r.s, r.a)
    /\ UNCHANGED <<client, conn, arrived, aux>>

\* attach <id> that writes both entries whatever the lookup returned.
attach_get_return_unverified(t, o) ==
    LET key == SessionKey(t.src)
        args == Join(Args(t))
        r == SetRes(t, o, "")
    IN  Out(Done(r, IF o = "ok" THEN "attached to " \o args
                    ELSE IF o = "status" THEN "session not found: " \o args
                    ELSE ErrorReply(o)),
            Put(sessions, key, args), Put(attached, key, args))

\* attach <id> after get_session has returned.
attach_get_return(t, o) ==
    LET key == SessionKey(t.src)
        args == Join(Args(t))
        r == SetRes(t, o, "")
    IN  CASE o = "ok" ->
                Out(Done(r, "attached to " \o args), Put(sessions, key, args),
                    Put(attached, key, args))
          [] o = "status" ->
                Out(Done(r, "session not found: " \o args), sessions, attached)
          [] OTHER -> Out(Done(r, ErrorReply(o)), sessions, attached)

AttachGetReturn(n, o) ==
    /\ n \in DOMAIN tasks
    /\ tasks[n].pc = "attach_get"
    /\ Possible(o, Join(Args(tasks[n])))
    /\ LET r == attach_get_return(tasks[n], o) IN Commit(n, r.t, r.s, r.a)
    /\ UNCHANGED <<client, conn, nextId, arrived, aux>>

\* cmd after execute_command has returned.
cmd_exec_return(t, o, parts) ==
    LET response_text == extract_text_from_parts(parts) IN
    Out(Done(SetRes(t, o, ""),
             IF o # "ok" THEN ErrorReply(o)
             ELSE IF response_text = "" THEN "command done" ELSE response_text),
        sessions, attached)

CmdExecReturn(n, o, parts) ==
    /\ n \in DOMAIN tasks
    /\ tasks[n].pc = "cmd_exec"
    /\ Possible(o, tasks[n].sid)
    /\ LET r == cmd_exec_return(tasks[n], o, parts) IN Commit(n, r.t, r.s, r.a)
    /\ UNCHANGED <<client, conn, nextId, arrived, aux>>

\* ------------------------------------------------------------------ specification

Events == 1..MaxEvents

Next ==
    \/ Initialize
    \/ \E src \in Sources, msg \in Inputs : Arrive(src, msg)
    \/ \E n \in Events, o \in Outcomes, parts \in ReplyParts :
          OnMessageReturn(n, o, parts)
    \/ \E n \in Events : Dispatch(n)
    \/ \E n \in Events, o \in Outcomes : CreateReturn(n, o)
    \/ \E n \in Events, o \in Outcomes, parts \in ReplyParts :
          ChatSendReturn(n, o, parts)
    \/ \E n \in Events, o \in Outcomes : SessionGetReturn(n, o)
    \/ \E n \in Events, o \in Outcomes : CurrentGetReturn(n, o)
    \/ \E n \in Events, o \in Outcomes, empty \in BOOLEAN :
          ReadReturn(n, o, empty)
    \/ \E n \in Events, o \in Outcomes : NewCreateReturn(n, o)
    \/ \E n \in Events, o \in Outcomes : AttachGetReturn(n, o)
    \/ \E n \in Events, o \in Outcomes, parts \in ReplyParts :
          CmdExecReturn(n, o, parts)

Spec == Init /\ [][Next]_vars

\* The next step of the processing of event n: the framework starts the
\* command handler after the intercept, or a remote call returns or fails.
TaskStep(n) ==
    \/ Dispatch(n)
    \/ \E o \in Outcomes, parts \in ReplyParts : OnMessageReturn(n, o, parts)
    \/ \E o \in Outcomes : CreateReturn(n, o)
    \/ \E o \in Outcomes, parts \in ReplyParts : ChatSendReturn(n, o, parts)
    \/ \E o \in Outcomes : SessionGetReturn(n, o)
    \/ \E o \in Outcomes : CurrentGetReturn(n, o)
    \/ \E o \in Outcomes, empty \in BOOLEAN : ReadReturn(n, o, empty)
    \/ \E o \in Outcomes : NewCreateReturn(n, o)
    \/ \E o \in Outcomes : AttachGetReturn(n, o)
    \/ \E o \in Outcomes, parts \in ReplyParts : CmdExecReturn(n, o, parts)

\* The processing of event n is suspended: at the start of its command
\* handler or on a remote call.  This is when TaskStep(n) is enabled: the
\* handler can start, and every call can fail if nothing else.
Suspended(n) == n \in DOMAIN tasks

\* Weak fairness of TaskStep(n), with ENABLED <<TaskStep(n)>>_vars written as
\* Suspended(n): a handler that stays suspended is resumed.
Resumed(n) == []<>(~Suspended(n)) \/ []<><<TaskStep(n)>>_vars

\* The plugin under an event loop that resumes every handler whose awaited
\* call has an answer, every call being answered (or timing out, the client's
\* timeout bounding it) in the end.
FairSpec == Spec /\ \A n \in Events : Resumed(n)

\* ------------------------------------------------------------------ text extraction

\* Every reply of at most MaxParts parts.
PartSeqs == UNION {[1..n -> PartKinds] : n \in 0..MaxParts}

RenderInit ==
    /\ RouterInit
    /\ ClientInit
    /\ partsIn \in PartSeqs
    /\ rendered = <<>>
    /\ evs = <<>>
    /\ evKeys = <<>>

\* response_text = extract_text_from_parts(parts)
Render ==
    /\ rendered = <<>>
    /\ rendered' = <<extract_text_from_parts(partsIn)>>
    /\ UNCHANGED <<router, partsIn, evs, evKeys, resources, cur, pending, made>>

RenderSpec == RenderInit /\ [][Render]_vars

\* ------------------------------------------------------------------ session key

\* Two events, each from any platform and conversation.
KeyInit ==
    /\ RouterInit
    /\ ClientInit
    /\ partsIn = <<>>
    /\ rendered = <<>>
    /\ evs \in (PlatformNames \X ConversationIds) \X (PlatformNames \X ConversationIds)
    /\ evKeys = <<>>

\* key = self._get_session_key(event), for the next of the events.
GetSessionKey ==
    /\ Len(evKeys) < Len(evs)
    /\ evKeys' = Append(evKeys, SessionKey(evs[Len(evKeys) + 1]))
    /\ UNCHANGED <<router, partsIn, rendered, evs, resources, cur, pending, made>>

KeySpec == KeyInit /\ [][GetSessionKey]_vars

\* ------------------------------------------------------------------ remote session client

\* _get_client that makes a new httpx.AsyncClient on every call.
get_client_always(res, c) ==
    [resources |-> Append(res, "open"), cur |-> Len(res) + 1]

\* _get_client: a new httpx.AsyncClient when self._client is None or closed,
\* the one there is otherwise.  It has no await inside, so it runs in one
\* step with the start of the request that follows it.
get_client(res, c) ==
    IF c = 0 \/ res[c] = "released"
    THEN [resources |-> Append(res, "open"), cur |-> Len(res) + 1]
    ELSE [resources |-> res, cur |-> c]

ClientSpecInit ==
    /\ RouterInit
    /\ PureIdle
    /\ ClientInit

\* health, list_sessions, create_session, get_session, delete_session,
\* send_message, execute_command, list_commands, get_messages: each gets the
\* client and awaits one request on it.
Operation ==
    /\ Len(made) < MaxCalls
    /\ LET g == get_client(resources, cur) IN
       /\ resources' = g.resources
       /\ cur' = g.cur
       /\ pending' = Append(pending, g.cur)
    /\ made' = Append(made, "op")
    /\ UNCHANGED <<router, partsIn, rendered, evs, evKeys>>

\* The request in flight at position i is answered or fails.
OperationReturn(i) ==
    /\ i \in 1..Len(pending)
    /\ pending' = SubSeq(pending, 1, i - 1) \o SubSeq(pending, i + 1, Len(pending))
    /\ UNCHANGED <<router, partsIn, rendered, evs, evKeys, resources, cur, made>>

\* close (terminate calls it): aclose() marks the client closed before its
\* first await, so is_closed is true from this step on.
Close ==
    /\ Len(made) < MaxCalls
    /\ resources' =
          IF cur # 0 /\ resources[cur] = "open"
          THEN [resources EXCEPT ![cur] = "released"]
          ELSE resources
    /\ made' = Append(made, "close")
    /\ UNCHANGED <<router, partsIn, rendered, evs, evKeys, cur, pending>>

ClientNext ==
    \/ Operation
    \/ \E i \in 1..MaxCalls : OperationReturn(i)
    \/ Close

ClientSpec == ClientSpecInit /\ [][ClientNext]_vars

\* ------------------------------------------------------------------ properties

\* Task t is the command `oc <c> ...`.
IsCmd(t, c) == IsCommand(t.msg) /\ Len(Parts(t)) >= 2 /\ Command(t) = c

\* The remote calls handler h of task t has made, in order.
CallsOf(t, h) == SelectSeq(t.calls, LAMBDA c : c.h = h)

\* The texts handler h of task t has replied with, in order.
RepliesOf(t, h) ==
    LET r == SelectSeq(t.replies, LAMBDA x : x.h = h) IN
    [i \in 1..Len(r) |-> r[i].text]

\* A command has just ended whose last remote call returned res.
Ended(c, res) ==
    /\ last.n # 0
    /\ IsCmd(last, c)
    /\ CallsOf(last, "cmd") # <<>>
    /\ last.calls[Len(last.calls)].h = "cmd"
    /\ last.calls[Len(last.calls)].res \in res

Failures == {"status", "transport"}

\* C1: every key that has an Attachment Set entry also has a Session Binding
\* entry, and the two entries hold the same remote session id.
C1_AttachedEqualsBinding ==
    \A k \in DOMAIN attached : k \in DOMAIN sessions /\ sessions[k] = attached[k]

\* C2: when the getSession of `attach <id>` fails (non-2xx status or transport
\* error), the key's binding and attachment are what they were when the
\* command arrived, unless another handler wrote them meanwhile, and for a
\* non-2xx status the command's only reply is the session-not-found message.
C2_AttachFailureKeepsState ==
    Ended("attach", Failures) =>
        /\ ~last.foreign => last.post = last.pre
        /\ last.calls[Len(last.calls)].res = "status" =>
              RepliesOf(last, "cmd") = <<"session not found: " \o Join(Args(last))>>

\* C2 witness: an attach whose lookup got a non-2xx answer has ended on a key
\* that was attached and bound before, and both entries are as before.
C2_Witness ==
    /\ Ended("attach", {"status"})
    /\ ~last.foreign
    /\ last.pre.att # ""
    /\ last.pre.bind # ""
    /\ last.post = last.pre

\* C3: a non-command message with non-empty trimmed text that arrives on a
\* key attached to <id> (as a successful `attach <id>` leaves it) causes
\* exactly one sendMessage, carrying the trimmed text to <id>, and when its
\* handling has ended, whatever the send returned, the key's binding and
\* attachment are what they were (no other handler having written them).
C3_AttachedMessageForwarded ==
    (/\ last.n # 0
     /\ ~IsCommand(last.msg)
     /\ Strip(last.msg) # <<>>
     /\ last.pre.att # "") =>
        /\ Len(last.calls) = 1
        /\ last.calls[1].h = "om"
        /\ last.calls[1].op = "send"
        /\ last.calls[1].sid = last.pre.att
        /\ last.calls[1].text = Join(Strip(last.msg))
        /\ last.calls[1].res \in Outcomes
        /\ ~last.foreign => last.post = last.pre

\* C3 witness: a message " hi " on a key attached and bound to session 1 has
\* been forwarded as "hi", the send failed, and both entries still are 1.
C3_Witness ==
    /\ last.n # 0
    /\ last.msg = <<SP, "hi", SP>>
    /\ last.pre = [bind |-> "1", att |-> "1"]
    /\ last.calls[1].text = "hi"
    /\ last.calls[1].res = "transport"
    /\ last.post = [bind |-> "1", att |-> "1"]

\* The event that arrived in this step, as the step leaves it.
Arrived == IF arrived' \in DOMAIN tasks' THEN tasks'[arrived'] ELSE last'

\* C4: a deattach removes its key's attachment if there is one and changes
\* nothing else in either map (not the key's binding, not another key's
\* entries); a key gets an attachment only by a successful attach on it; and
\* a message that arrives on a key without attachment causes no sendMessage
\* from the intercept.
C4_DeattachStopsForwarding ==
    [][/\ (last'.n # 0 /\ IsCmd(last', "deattach")) =>
              /\ attached' = Remove(attached, last'.key)
              /\ sessions' = sessions
       /\ \A k \in Keys :
              (k \notin DOMAIN attached /\ k \in DOMAIN attached') =>
                  /\ last'.n # 0
                  /\ last'.key = k
                  /\ IsCmd(last', "attach")
                  /\ last'.calls[Len(last'.calls)].res = "ok"
       /\ arrived' # arrived =>
              (Arrived.key \notin DOMAIN attached => CallsOf(Arrived, "om") = <<>>)
      ]_vars

\* C4 witness: a deattach has ended on a key attached and bound to session 1;
\* the attachment is gone, the binding is still 1, and another key is still
\* attached.
C4_Witness ==
    /\ last.n # 0
    /\ IsCmd(last, "deattach")
    /\ last.pre = [bind |-> "1", att |-> "1"]
    /\ last.post = [bind |-> "1", att |-> ""]
    /\ \E k \in DOMAIN attached : k # last.key

\* The command handler of t ran past the check of self.client.
Ran(t) == RepliesOf(t, "cmd") # <<"client not initialized">>

\* A `chat <text>` has just ended that no other handler's write interfered with.
ChatEnded ==
    /\ last.n # 0
    /\ IsCmd(last, "chat")
    /\ Args(last) # <<>>
    /\ Ran(last)
    /\ ~last.foreign

\* The call is a sendMessage of text to session id.
IsSend(c, id, text) == c.op = "send" /\ c.sid = id /\ c.text = text

\* C5: with no other handler writing the key meanwhile, `chat <text>` on an
\* unbound key calls createSession exactly once and, when that succeeds,
\* binds the key to the returned id before it sends the text there; on a
\* bound key it calls createSession zero times, sends the text to the bound
\* id and leaves the binding as it was.
C5_ChatGetOrCreate ==
    /\ ChatEnded =>
          LET calls == CallsOf(last, "cmd")
              creates == SelectSeq(calls, LAMBDA c : c.op = "create")
          IN  IF last.pre.bind = ""
              THEN /\ Len(creates) = 1
                   /\ calls[1].op = "create"
                   /\ IF calls[1].res = "ok"
                      THEN /\ Len(calls) = 2
                           /\ IsSend(calls[2], calls[1].ret, Join(Args(last)))
                           /\ last.post.bind = calls[1].ret
                      ELSE /\ Len(calls) = 1
                           /\ last.post.bind = ""
              ELSE /\ Len(creates) = 0
                   /\ Len(calls) = 1
                   /\ IsSend(calls[1], last.pre.bind, Join(Args(last)))
                   /\ last.post.bind = last.pre.bind
    /\ \A n \in DOMAIN tasks :
          (tasks[n].pc = "chat_send" /\ ~tasks[n].foreign) =>
              Lookup(sessions, tasks[n].key) = tasks[n].sid

\* C5 witness: a chat on an unbound key has ended after one createSession
\* and a send to the created session, to which the key is now bound.
C5_Witness ==
    /\ ChatEnded
    /\ last.pre.bind = ""
    /\ Len(last.calls) = 2
    /\ last.calls[1].op = "create"
    /\ last.calls[2].sid = last.calls[1].ret
    /\ last.calls[2].res = "ok"
    /\ last.post.bind = last.calls[1].ret

\* The position of id among the server's sessions, in creation order.
NumOf(id) == CHOOSE i \in 1..(nextId - 1) : IdOf(i) = id

\* The session task t created in _get_or_create_session ("" if none).
CreatedBy(t) ==
    IF t.calls # <<>> /\ t.calls[1].op = "create" /\ t.calls[1].res = "ok"
    THEN t.calls[1].ret
    ELSE ""

\* Task n takes this step.
Stepped(n) ==
    /\ n \in DOMAIN tasks
    /\ n \in DOMAIN tasks' => tasks'[n].pc # tasks[n].pc

\* Task n as this step leaves it.
Next_(n) == IF n \in DOMAIN tasks' THEN tasks'[n] ELSE last'

\* C6: get-or-create has no mutual exclusion.  A chat that finds its key
\* unbound calls createSession even while another chat on the key is waiting
\* for its own createSession; and each createSession that succeeds adds a
\* session to the server and overwrites the key's binding with its id, so
\* that a session another chat on the key created before is a different one
\* and is not the key's binding any more (the last write wins).
C6_ConcurrentChatsBothCreate ==
    [][\A n \in DOMAIN tasks :
          (Stepped(n) /\ IsCmd(tasks[n], "chat")) =>
              /\ (/\ tasks[n].pc = "dispatch"
                  /\ Args(tasks[n]) # <<>>
                  /\ client
                  /\ tasks[n].key \notin DOMAIN sessions) =>
                     /\ Next_(n).pc = "create"
                     /\ Next_(n).calls[Len(Next_(n).calls)].op = "create"
              /\ (tasks[n].pc = "create" /\ CreatedBy(Next_(n)) # "") =>
                     /\ CreatedBy(Next_(n)) = IdOf(nextId)
                     /\ nextId' = nextId + 1
                     /\ sessions'[tasks[n].key] = CreatedBy(Next_(n))
                     /\ \A m \in DOMAIN tasks \ {n} :
                           (/\ tasks[m].key = tasks[n].key
                            /\ CreatedBy(tasks[m]) # "") =>
                               /\ CreatedBy(tasks[m]) # CreatedBy(Next_(n))
                               /\ sessions'[tasks[n].key] # CreatedBy(tasks[m])
      ]_vars

\* C6 witness: two chats on one key, both arrived while it was unbound, have
\* each created a session; the key is bound to the later one and no key is
\* bound to the earlier one.
C6_Witness ==
    \E a \in DOMAIN tasks : \E b \in DOMAIN tasks :
        /\ a # b
        /\ tasks[a].key = tasks[b].key
        /\ IsCmd(tasks[a], "chat")
        /\ IsCmd(tasks[b], "chat")
        /\ tasks[a].pre.bind = ""
        /\ tasks[b].pre.bind = ""
        /\ CreatedBy(tasks[a]) # ""
        /\ CreatedBy(tasks[b]) # ""
        /\ NumOf(CreatedBy(tasks[a])) < NumOf(CreatedBy(tasks[b]))
        /\ sessions[tasks[a].key] = CreatedBy(tasks[b])
        /\ \A k \in DOMAIN sessions : sessions[k] # CreatedBy(tasks[a])

\* C7: clear removes its key's binding (and changes nothing when there is
\* none); a chat that then finds the key unbound calls createSession, and
\* when that succeeds the returned id is none the key was bound to before,
\* the key is bound to it and the chat text is sent to it.
C7_ClearThenChatCreates ==
    /\ (last.n # 0 /\ IsCmd(last, "clear") /\ ~last.foreign) =>
          last.post = [bind |-> "", att |-> last.pre.att]
    /\ (ChatEnded /\ last.pre.bind = "") =>
          LET calls == CallsOf(last, "cmd") IN
          /\ calls # <<>>
          /\ calls[1].op = "create"
          /\ calls[1].res = "ok" =>
                /\ calls[1].ret \notin last.ever
                /\ last.post.bind = calls[1].ret
                /\ Len(calls) = 2
                /\ IsSend(calls[2], calls[1].ret, Join(Args(last)))

\* C7 witness: a chat has ended on a key that had been bound and then
\* cleared; it created a session the key was never bound to, bound the key
\* to it and sent "hi" there.
C7_Witness ==
    /\ ChatEnded
    /\ last.pre.bind = ""
    /\ last.ever # {}
    /\ CreatedBy(last) # ""
    /\ CreatedBy(last) \notin last.ever
    /\ last.post.bind = CreatedBy(last)
    /\ IsSend(last.calls[Len(last.calls)], CreatedBy(last), "hi")

\* A `session <id>` has just ended whose getSession returned res.
SessionEnded(res) == Ended("session", res) /\ Args(last) # <<>>

\* C8 as stated: a `session <id>` whose getSession fails leaves the key's
\* binding and attachment unchanged and replies with the not-found message;
\* one whose getSession succeeds binds the key to <id>.
C8_SessionFailureRepliesNotFound ==
    /\ SessionEnded(Failures) =>
          /\ ~last.foreign => last.post = last.pre
          /\ RepliesOf(last, "cmd") = <<"session not found: " \o Join(Args(last))>>
    /\ SessionEnded({"ok"}) => last.post.bind = Join(Args(last))

\* C8 amended: a `session <id>` whose getSession fails leaves the key's
\* binding and attachment unchanged; it replies with the not-found message
\* when the failure is a non-2xx status and with the network-error message
\* when it is a transport error; one whose getSession succeeds binds the key
\* to <id>.
C8_SessionSwitch ==
    /\ SessionEnded(Failures) =>
          /\ ~last.foreign => last.post = last.pre
          /\ RepliesOf(last, "cmd") =
                IF last.calls[Len(last.calls)].res = "status"
                THEN <<"session not found: " \o Join(Args(last))>>
                ELSE <<"network error">>
    /\ SessionEnded({"ok"}) => last.post.bind = Join(Args(last))

\* C8 witness: `session 2` has ended with a non-2xx lookup on a key bound to
\* session 1, and the key is still bound to 1.
C8_Witness ==
    /\ SessionEnded({"status"})
    /\ ~last.foreign
    /\ last.pre.bind = "1"
    /\ last.post.bind = "1"
    /\ RepliesOf(last, "cmd") = <<"session not found: 2">>

\* The tasks whose intercept has returned from a failed sendMessage and that
\* have done nothing since: those waiting for their command handler and a
\* non-command message that has just ended.
InterceptFailed ==
    {t \in {tasks[n] : n \in DOMAIN tasks} \cup {last} :
        /\ t.n # 0
        /\ t.pc = "dispatch" \/ (t.pc = "done" /\ ~IsCommand(t.msg))
        /\ CallsOf(t, "om") # <<>>
        /\ CallsOf(t, "om")[1].res \in Failures}

\* The key's entries now, or when the task ended.
After(t) == IF t.pc = "done" THEN t.post ELSE Snap(sessions, attached, t.key)

\* Every task in flight and the one that has just ended.
Present == {t \in {tasks[n] : n \in DOMAIN tasks} \cup {last} : t.n # 0}

\* C9: when the intercept's sendMessage for an attached key fails, the
\* intercept emits exactly one reply, the error reply of the failure, and the
\* key's attachment and binding are what they were when the message arrived
\* (no other handler having written them), so the attachment is still there
\* for later messages.
C9_FailedForwardKeepsAttachment ==
    /\ \A t \in Present :
          (CallsOf(t, "om") # <<>> /\ CallsOf(t, "om")[1].res \in Failures) =>
              RepliesOf(t, "om") = <<ErrorReply(CallsOf(t, "om")[1].res)>>
    /\ \A t \in InterceptFailed :
          ~t.foreign =>
              /\ After(t) = t.pre
              /\ After(t).att # ""

\* C9 witness: the forwarding of " hi " on a key attached to session 1 has
\* failed with a non-2xx status; one error reply was emitted and the key is
\* still attached to 1.
C9_Witness ==
    /\ last \in InterceptFailed
    /\ ~last.foreign
    /\ last.msg = <<SP, "hi", SP>>
    /\ last.calls[1].res = "status"
    /\ last.replies = <<[h |-> "om", text |-> "request failed: status"]>>
    /\ last.post.att = "1"

\* C10: a step that writes Session Binding or Attachment Set belongs to a
\* command handler and either that handler makes no remote call at all
\* (clear, deattach), or the step is the successful return of a remote call
\* of that handler and no remote call of the handler has failed.
C10_WritesFollowSuccess ==
    [][(sessions' # sessions \/ attached' # attached) =>
          \E n \in DOMAIN tasks :
              /\ Stepped(n)
              /\ \/ /\ tasks[n].pc = "dispatch"
                    /\ CallsOf(Next_(n), "cmd") = <<>>
                 \/ /\ tasks[n].pc \notin {"dispatch", "om_send"}
                    /\ tasks[n].calls[Len(tasks[n].calls)].res = "pending"
                    /\ Next_(n).calls[Len(tasks[n].calls)].res = "ok"
                    /\ \A i \in 1..Len(tasks[n].calls) :
                          Next_(n).calls[i].h = "cmd" =>
                              Next_(n).calls[i].res = "ok"
      ]_vars

\* C10 witness: a chat has ended whose createSession succeeded and whose
\* sendMessage then failed; the key is bound to the created session, the
\* write made after the successful call.
C10_Witness ==
    /\ ChatEnded
    /\ last.pre.bind = ""
    /\ CreatedBy(last) # ""
    /\ last.calls[Len(last.calls)].res \in Failures
    /\ last.post.bind = CreatedBy(last)

\* C11 as stated: while self.client has not been constructed, every handler
\* that runs (the intercept of any message, the dispatch of any command text,
\* the bare `oc` included) makes no remote call, leaves the key's binding and
\* attachment as they were, ends normally, and replies with the
\* configuration-error message.
C11_UninitializedRepliesConfigError ==
    ~client =>
        \A t \in Present :
            /\ t.calls = <<>>
            /\ After(t) = t.pre
            /\ t.pc \in {"dispatch", "done"}
            /\ RepliesOf(t, "om") = <<"client not initialized">>
            /\ (IsCommand(t.msg) /\ t.pc = "done") =>
                  RepliesOf(t, "cmd") = <<"client not initialized">>

\* C11 amended: while self.client has not been constructed, every handler
\* that runs makes no remote call, leaves the key's binding and attachment as
\* they were and ends normally; the intercept emits no reply, the dispatch of
\* a command text with a sub-command replies with the configuration-error
\* message only, and the dispatch of a bare `oc` replies with the usage help
\* only.
C11_UninitializedShortCircuits ==
    ~client =>
        \A t \in Present :
            /\ t.calls = <<>>
            /\ After(t) = t.pre
            /\ t.pc \in {"dispatch", "done"}
            /\ RepliesOf(t, "om") = <<>>
            /\ (IsCommand(t.msg) /\ t.pc = "done") =>
                  RepliesOf(t, "cmd") =
                      IF Len(Parts(t)) < 2 THEN <<"usage">>
                      ELSE <<"client not initialized">>
            /\ (IsCommand(t.msg) /\ t.pc = "dispatch") => RepliesOf(t, "cmd") = <<>>

\* C11 witness: before initialize(), a `chat hi` has been dispatched and has
\* ended with the configuration-error reply and no remote call.
C11_Witness ==
    /\ ~client
    /\ last.n # 0
    /\ IsCmd(last, "chat")
    /\ last.calls = <<>>
    /\ last.replies = <<[h |-> "cmd", text |-> "client not initialized"]>>

\* The structured arguments of `cmd <name> <args>` do not parse.
BadJson(t) ==
    LET cmd_parts == SplitMax(Args(t), 1) IN
    Len(cmd_parts) > 1 /\ Join(cmd_parts[2]) \notin ValidJson

\* The remote calls of handler h of task t that failed.
FailedCalls(t, h) == SelectSeq(CallsOf(t, h), LAMBDA c : c.res \in Failures)

\* json.loads raised in the cmd handler of t: the handler got past
\* get-or-create without a failed call and came to the arguments.
ParseFailed(t) ==
    /\ IsCmd(t, "cmd")
    /\ BadJson(t)
    /\ t.pc = "done"
    /\ Ran(t)
    /\ FailedCalls(t, "cmd") = <<>>

\* The replies of handler h of task t that report a failure.
ErrorRepliesOf(t, h) ==
    SelectSeq(RepliesOf(t, h),
              LAMBDA x : x \in {"request failed: status", "network error", "error",
                                "session not found: " \o Join(Args(t))})

\* Handler h of task t has ended.
HandlerEnded(t, h) ==
    IF h = "om" THEN t.pc # "om_send" ELSE t.pc = "done"

\* Each failure in a handler is answered by one error reply, the handler's
\* last reply, and ends the handler; and a command handler that has ended
\* has replied.
FailuresAnswered ==
    \A t \in Present :
        /\ \A h \in {"om", "cmd"} :
              LET failures == Len(FailedCalls(t, h))
                                 + (IF h = "cmd" /\ ParseFailed(t) THEN 1 ELSE 0)
                  errors == ErrorRepliesOf(t, h)
              IN  /\ Len(errors) = failures
                  /\ failures <= 1
                  /\ failures = 1 =>
                        /\ HandlerEnded(t, h)
                        /\ RepliesOf(t, h)[Len(RepliesOf(t, h))] = errors[1]
                        /\ FailedCalls(t, h) # <<>> =>
                              CallsOf(t, h)[Len(CallsOf(t, h))].res \in Failures
        /\ (IsCommand(t.msg) /\ t.pc = "done") => RepliesOf(t, "cmd") # <<>>

\* Every suspended handler is at a point from which TaskStep takes it on:
\* before its command handler, or on a remote call, which can always fail.
CanResume ==
    \A n \in DOMAIN tasks :
        tasks[n].pc \in {"dispatch", "om_send", "create", "chat_send",
                         "session_get", "current_get", "read", "new_create",
                         "attach_get", "cmd_exec"}

\* C12: every failure of a remote call and every parse failure in the
\* intercept or in the command dispatch is answered by exactly one error reply
\* of that handler, after which the handler makes no call and ends; and, every
\* remote call being answered in the end, the processing of every event ends,
\* a command dispatch having replied at least once.
C12_FailuresCaughtHandlersEnd ==
    /\ []FailuresAnswered
    /\ []CanResume
    /\ \A n \in Events : Suspended(n) ~> ~Suspended(n)

\* C12 witness: a chat on an attached key has ended after the intercept's
\* send and its own send both failed, each answered by one error reply.
C12_Witness ==
    /\ last.n # 0
    /\ IsCmd(last, "chat")
    /\ Len(FailedCalls(last, "om")) = 1
    /\ Len(FailedCalls(last, "cmd")) = 1
    /\ RepliesOf(last, "om") = <<"network error">>
    /\ RepliesOf(last, "cmd") = <<"thinking", "request failed: status">>

\* C13: a step of the processing of an event with key K (its intercept on
\* arrival, its command handler, a return of one of its remote calls) leaves
\* the Session Binding entry and the Attachment Set entry of every other key
\* as they are, whatever other handlers are suspended meanwhile.
C13_OtherKeysUntouched ==
    [][/\ \A n \in DOMAIN tasks :
              Stepped(n) =>
                  \A k \in Keys \ {tasks[n].key} :
                      Snap(sessions', attached', k) = Snap(sessions, attached, k)
       /\ arrived' # arrived =>
              \A k \in Keys \ {Arrived.key} :
                  Snap(sessions', attached', k) = Snap(sessions, attached, k)
      ]_vars

\* C13 witness: a command has ended that changed its own key's entries
\* while a handler of another key, whose key is bound, was suspended, and
\* that handler's entries were not written.
C13_Witness ==
    /\ last.n # 0
    /\ last.post # last.pre
    /\ \E m \in DOMAIN tasks :
          /\ tasks[m].key # last.key
          /\ tasks[m].pre.bind # ""
          /\ ~tasks[m].foreign
          /\ Snap(sessions, attached, tasks[m].key) = tasks[m].pre

\* The part is of type text.
IsTextPart(p) == "type" \in DOMAIN p /\ p.type = "text"

\* The text a text part carries (the empty text when it carries none).
TextField(p) == IF "text" \in DOMAIN p THEN p.text ELSE ""

\* The first n of the texts ts, each two neighbours separated by one newline.
RECURSIVE Joined(_, _)
Joined(ts, n) ==
    IF n = 0 THEN ""
    ELSE IF n = 1 THEN ts[1]
    ELSE Joined(ts, n - 1) \o "\n" \o ts[n]

\* C14: the text extract_text_from_parts returns for a sequence of parts is
\* the texts of exactly the parts of type text, in their order, joined by one
\* newline (a text part that carries no text counting as the empty text);
\* parts of another type or without a type contribute nothing, and without
\* any text part the result is the empty string.
C14_TextPartsJoinedByNewline ==
    rendered # <<>> =>
        LET texts == SelectSeq(partsIn, IsTextPart)
            fields == [i \in 1..Len(texts) |-> TextField(texts[i])]
        IN  /\ rendered[1] = Joined(fields, Len(fields))
            /\ texts = <<>> => rendered[1] = ""

\* C14 witness: the parts text A, image, text B have been rendered as the
\* two lines A and B.
C14_Witness ==
    /\ partsIn = << [type |-> "text", text |-> "A"],
                    [type |-> "image", text |-> "x"],
                    [type |-> "text", text |-> "B"] >>
    /\ rendered = <<"A\nB">>

\* C15: when a getSession answers with a non-2xx status, the command's only
\* reply is the session-not-found message for the id looked up and the key's
\* binding and attachment are what they were (no other handler having
\* written them), in `session <id>`, in `attach <id>` and in `session`
\* without an id, which looks up the key's bound session.
C15_LookupFailureRepliesNotFound ==
    \A c \in {"session", "attach"} :
        Ended(c, {"status"}) =>
            /\ ~last.foreign => last.post = last.pre
            /\ RepliesOf(last, "cmd") =
                  <<"session not found: " \o last.calls[Len(last.calls)].sid>>

\* C16: the session the intercept sends a message to is the key's Session
\* Binding entry at the moment the message arrives, whatever attach, new,
\* session <id>, clear and chat commands the key has seen before.
C16_ForwardsToBinding ==
    \A t \in Present :
        CallsOf(t, "om") # <<>> => CallsOf(t, "om")[1].sid = t.pre.bind

\* C17: the intercept makes no sendMessage for an event that carries a
\* command, and for a message whose trimmed text is empty or whose key has no
\* attachment it makes no remote call and no reply and, the message being no
\* command, the key's entries are afterwards what they were (no other
\* handler having written them).
C17_OnlyRawMessagesForwarded ==
    \A t \in Present :
        /\ IsCommand(t.msg) => CallsOf(t, "om") = <<>>
        /\ (Strip(t.msg) = <<>> \/ t.pre.att = "") =>
              /\ CallsOf(t, "om") = <<>>
              /\ RepliesOf(t, "om") = <<>>
              /\ (~IsCommand(t.msg) /\ ~t.foreign) => After(t) = t.pre

\* C18: two events whose (platform name, conversation id) pairs differ get
\* different Session Identity Keys, also when a name or an id contains an
\* underscore.
C18_KeyInjective ==
    (Len(evKeys) = 2 /\ evs[1] # evs[2]) => evKeys[1] # evKeys[2]

\* The connection resources not released.
Unreleased == {i \in 1..Len(resources) : resources[i] = "open"}

\* This step is the call c ("op" or "close") on the client.
Calls(c) == made' = Append(made, c)

\* C19: on one client, whatever operations and closes are called and
\* however their requests overlap: there is no connection resource before the
\* first operation; at most one resource is unreleased at any time, the one
\* the client holds; a resource is made only by an operation that finds none
\* or finds the one there released, and an operation that finds an
\* unreleased one uses it; and a close that finds no resource or a released
\* one changes nothing.
C19_OneConnectionResource ==
    /\ [](/\ (\A i \in 1..Len(made) : made[i] # "op") => resources = <<>>
          /\ Cardinality(Unreleased) <= 1
          /\ Unreleased \subseteq {cur}
          /\ cur = Len(resources))
    /\ [][/\ resources' # resources /\ Len(resources') # Len(resources) =>
                /\ Calls("op")
                /\ cur = 0 \/ resources[cur] = "released"
                /\ resources' = Append(resources, "open")
          /\ (Calls("op") /\ cur # 0 /\ resources[cur] = "open") =>
                /\ resources' = resources
                /\ cur' = cur
                /\ pending'[Len(pending')] = cur
          /\ (Calls("close") /\ (cur = 0 \/ resources[cur] = "released")) =>
                /\ resources' = resources
                /\ cur' = cur
                /\ pending' = pending
         ]_vars

\* C19 witness: after an operation, two closes and another operation the
\* first resource is released and the client holds a second, unreleased one.
C19_Witness ==
    /\ made = <<"op", "close", "close", "op">>
    /\ resources = <<"released", "open">>
    /\ cur = 2

\* A `cmd <name> <args>` whose arguments do not parse has just ended, past
\* the check of self.client.
BadCmdEnded == last.n # 0 /\ IsCmd(last, "cmd") /\ BadJson(last) /\ Ran(last)

\* C20: a `cmd <name> <args>` whose structured arguments do not parse never
\* calls executeCommand and emits one reply, an error reply; get-or-create
\* runs before the arguments are parsed, so on a key without binding (and
\* with no other handler writing the key) the command has called
\* createSession once and, when that succeeded, the key is bound to the
\* created session when the command ends with the parse error, while on a
\* bound key it makes no call and leaves the binding.
C20_ParseErrorAfterGetOrCreate ==
    BadCmdEnded =>
        LET calls == CallsOf(last, "cmd") IN
        /\ \A i \in 1..Len(calls) : calls[i].op # "exec"
        /\ Len(RepliesOf(last, "cmd")) = 1
        /\ Len(ErrorRepliesOf(last, "cmd")) = 1
        /\ ~last.foreign =>
              IF last.pre.bind = ""
              THEN /\ Len(calls) = 1
                   /\ calls[1].op = "create"
                   /\ IF calls[1].res = "ok"
                      THEN /\ last.post.bind = calls[1].ret
                           /\ RepliesOf(last, "cmd") = <<"error">>
                      ELSE /\ last.post.bind = ""
                           /\ RepliesOf(last, "cmd") = <<ErrorReply(calls[1].res)>>
              ELSE /\ calls = <<>>
                   /\ last.post.bind = last.pre.bind
                   /\ RepliesOf(last, "cmd") = <<"error">>

\* C20 witness: `cmd init {bad` has ended on a key that had no binding: one
\* createSession, no executeCommand, the parse-error reply, and the key bound
\* to the created session.
C20_Witness ==
    /\ BadCmdEnded
    /\ ~last.foreign
    /\ last.pre.bind = ""
    /\ Len(last.calls) = 1
    /\ CreatedBy(last) # ""
    /\ last.post.bind = CreatedBy(last)
    /\ last.replies = <<[h |-> "cmd", text |-> "error"]>>

====
